---- MODULE Spec2Model ----
(***************************************************************************)
(* Depth-2 regression tree of script.js: trainDepth2Tree, predictOne and   *)
(* the Reveal/Hide, Regenerate and resize handlers around them.            *)
(*                                                                         *)
(* Numbers.  x-coordinates are integers counted in grid units of a quarter *)
(* of the trainer's dedup tolerance (eps = 1e-9, so one unit is 2.5e-10);  *)
(* every x used is even, so the midpoint of two of them is an integer.     *)
(* y-values are integers.  Means and squared errors are exact fractions    *)
(* [num, den]; the rounding of IEEE doubles is not modelled.               *)
(* Indices are the 0-based indices of the source; pts[i] of the source is  *)
(* pts[i + 1] of a TLA+ sequence.                                          *)
(***************************************************************************)
EXTENDS Integers, Sequences, FiniteSets

VARIABLES data, tree, showSolution, btnLabel, panelHidden, tableRows,
          rect, canvas, lastEvent, prevShown, query, result

vars == <<data, tree, showSolution, btnLabel, panelHidden, tableRows,
          rect, canvas, lastEvent, prevShown, query, result>>

uiVars == <<showSolution, btnLabel, panelHidden, tableRows, rect, canvas,
            lastEvent, prevShown>>

(***************************************************************************)
(* Bounds and input domains                                                *)
(***************************************************************************)
\* longest sample handed to the trainer
MaxLen == 4
\* number of points generateData produces (CONFIG.n, scaled down)
GenN == 3
\* dedup tolerance of the trainer, in grid units (1e-9)
Eps == 4
\* x-values of the samples: three within the tolerance of each other, one far
XValues == {0, 2, 4, 10}
\* y-values of the samples
YValues == {0, 1}
\* x-values asked of predictOne: below, at, between and above the sample's
QueryXs == {-2, 0, 2, 3, 4, 10, 12}
\* spacing of the points of generateData and of the perfect step: even, and
\* wide enough that no two of their thresholds are within Eps of each other
XGap == 2 * Eps + 2

Point(x, y) == [x |-> x, y |-> y]

Points == {Point(x, y) : x \in XValues, y \in YValues}

Samples == UNION {[1..k -> Points] : k \in 0..MaxLen}

\* the eight-point perfect step: x = 0..7 (XGap apart), y = 0,0,0,0,10,10,10,10
PerfectStep == [i \in 1..8 |-> Point((i - 1) * XGap, IF i <= 4 THEN 0 ELSE 10)]

\* null of the source, as a tree and as a prediction
Null == [null |-> TRUE]

IsNull(v) == "null" \in DOMAIN v

\* no call of predictOne made yet; a call with xVal is recorded as <<xVal>>
NoQuery == <<>>

(***************************************************************************)
(* Exact fractions                                                         *)
(***************************************************************************)
RECURSIVE Gcd(_, _)
Gcd(a, b) == IF b = 0 THEN a ELSE Gcd(b, a % b)

Abs(a) == IF a < 0 THEN -a ELSE a

\* num / den in lowest terms with a positive denominator
Frac(num, den) ==
    LET g == Gcd(Abs(num), Abs(den))
    IN  [num |-> num \div g, den |-> den \div g]

AddQ(a, b) == Frac(a.num * b.den + b.num * a.den, a.den * b.den)

Infinity == [inf |-> TRUE]

\* a < b, where b may be Infinity
LessQ(a, b) ==
    IF "inf" \in DOMAIN b THEN TRUE
    ELSE a.num * b.den < b.num * a.den

(***************************************************************************)
(* trainDepth2Tree                                                         *)
(***************************************************************************)
\* points.slice().sort((a, b) => a.x - b.x): stable, ascending by x
RECURSIVE SortByX(_)
SortByX(s) ==
    IF Len(s) <= 1 THEN s
    ELSE LET rest == SortByX(SubSeq(s, 1, Len(s) - 1))
             p    == s[Len(s)]
             k    == Cardinality({i \in 1..Len(rest) : rest[i].x <= p.x})
         IN  SubSeq(rest, 1, k) \o <<p>> \o SubSeq(rest, k + 1, Len(rest))

\* prefixSum[i]: sum of the y of the first i points
RECURSIVE prefixSum(_, _)
prefixSum(pts, i) == IF i = 0 THEN 0 ELSE prefixSum(pts, i - 1) + pts[i].y

\* prefixSumSq[i]: sum of the y * y of the first i points
RECURSIVE prefixSumSq(_, _)
prefixSumSq(pts, i) ==
    IF i = 0 THEN 0 ELSE prefixSumSq(pts, i - 1) + pts[i].y * pts[i].y

\* SSE of the inclusive range [l, r]: s2 - len * mean * mean
segmentError(pts, l, r) ==
    LET len == r - l + 1
        s   == prefixSum(pts, r + 1) - prefixSum(pts, l)
        s2  == prefixSumSq(pts, r + 1) - prefixSumSq(pts, l)
    IN  IF len <= 0 THEN Frac(0, 1)
        ELSE Frac(s2 * len - s * s, len)

\* mean of the inclusive range [l, r]
segmentMean(pts, l, r) ==
    LET len == r - l + 1
        s   == prefixSum(pts, r + 1) - prefixSum(pts, l)
    IN  IF len <= 0 THEN Frac(0, 1) ELSE Frac(s, len)

\* cost of splitting [l, r] after index i
splitCost(pts, l, r, i) ==
    AddQ(segmentError(pts, l, i), segmentError(pts, i + 1, r))

\* bestSplitLoop without the skip of candidates between two equal x
RECURSIVE bestSplitLoopNoSkip(_, _, _, _, _)
bestSplitLoopNoSkip(pts, l, r, i, best) ==
    IF i >= r THEN best
    ELSE LET sse == splitCost(pts, l, r, i)
         IN  IF LessQ(sse, best.sse)
             THEN bestSplitLoopNoSkip(pts, l, r, i + 1, [idx |-> i, sse |-> sse])
             ELSE bestSplitLoopNoSkip(pts, l, r, i + 1, best)

\* bestSplitLoop keeping the first candidate instead of the cheapest
RECURSIVE bestSplitLoopFirst(_, _, _, _, _)
bestSplitLoopFirst(pts, l, r, i, best) ==
    IF i >= r THEN best
    ELSE IF pts[i + 1].x = pts[i + 2].x
         THEN bestSplitLoopFirst(pts, l, r, i + 1, best)
         ELSE IF best.idx = -1
              THEN bestSplitLoopFirst(pts, l, r, i + 1,
                                      [idx |-> i, sse |-> splitCost(pts, l, r, i)])
              ELSE bestSplitLoopFirst(pts, l, r, i + 1, best)

\* the loop of bestSplit from candidate i on, with the best found so far
RECURSIVE bestSplitLoop(_, _, _, _, _)
bestSplitLoop(pts, l, r, i, best) ==
    IF i >= r THEN best
    ELSE IF pts[i + 1].x = pts[i + 2].x
         THEN bestSplitLoop(pts, l, r, i + 1, best)
         ELSE LET sse == splitCost(pts, l, r, i)
              IN  IF LessQ(sse, best.sse)
                  THEN bestSplitLoop(pts, l, r, i + 1, [idx |-> i, sse |-> sse])
                  ELSE bestSplitLoop(pts, l, r, i + 1, best)

bestSplit(pts, l, r) ==
    bestSplitLoop(pts, l, r, l, [idx |-> -1, sse |-> Infinity])

\* (pts[i].x + pts[i + 1].x) * 0.5
threshold(pts, i) == (pts[i + 1].x + pts[i + 2].x) \div 2

Leaf(pts, lo, hi) == [range |-> <<lo, hi>>, mean |-> segmentMean(pts, lo, hi)]

\* childLeaves with the second leaf starting at the split index itself
childLeavesOverlap(pts, l, r, best) ==
    IF best.idx # -1
    THEN <<Leaf(pts, l, best.idx), Leaf(pts, best.idx, r)>>
    ELSE <<Leaf(pts, l, r)>>

\* the leaves a child [l, r] contributes, given its best split
childLeaves(pts, l, r, best) ==
    IF best.idx # -1
    THEN <<Leaf(pts, l, best.idx), Leaf(pts, best.idx + 1, r)>>
    ELSE <<Leaf(pts, l, r)>>

\* thresholds.slice().sort((a, b) => a - b)
RECURSIVE SortNum(_)
SortNum(s) ==
    IF Len(s) <= 1 THEN s
    ELSE LET rest == SortNum(SubSeq(s, 1, Len(s) - 1))
             v    == s[Len(s)]
             k    == Cardinality({i \in 1..Len(rest) : rest[i] <= v})
         IN  SubSeq(rest, 1, k) \o <<v>> \o SubSeq(rest, k + 1, Len(rest))

\* .filter((v, i, arr) => i === 0 || Math.abs(v - arr[i - 1]) > eps)
dedupe(arr) ==
    SelectSeq([i \in 1..Len(arr) |-> [v |-> arr[i], i |-> i]],
              LAMBDA e : e.i = 1 \/ Abs(e.v - arr[e.i - 1]) > Eps)

uniqThresh(thresholds) ==
    LET kept == dedupe(SortNum(thresholds))
    IN  [i \in 1..Len(kept) |-> kept[i].v]

trainDepth2Tree(points) ==
    IF Len(points) = 0 THEN Null
    ELSE
    LET pts  == SortByX(points)
        n    == Len(pts)
        root == bestSplit(pts, 0, n - 1)
    IN  IF root.idx = -1
        THEN [leaves |-> <<Leaf(pts, 0, n - 1)>>, thresholds |-> <<>>]
        ELSE
        LET thr0      == threshold(pts, root.idx)
            leftBest  == bestSplit(pts, 0, root.idx)
            rightBest == bestSplit(pts, root.idx + 1, n - 1)
            thrL == IF leftBest.idx # -1
                    THEN <<threshold(pts, leftBest.idx)>> ELSE <<>>
            thrR == IF rightBest.idx # -1
                    THEN <<threshold(pts, rightBest.idx)>> ELSE <<>>
            leaves == childLeaves(pts, 0, root.idx, leftBest)
                      \o childLeaves(pts, root.idx + 1, n - 1, rightBest)
        IN  [leaves |-> leaves,
             thresholds |-> uniqThresh(<<thr0>> \o thrL \o thrR),
             pts |-> pts]

(***************************************************************************)
(* predictOne                                                              *)
(***************************************************************************)
\* the binary search: index of the last x <= xVal, 0 when there is none
RECURSIVE searchLoop(_, _, _, _, _)
searchLoop(pts, xVal, lo, hi, idx) ==
    IF lo > hi THEN idx
    ELSE LET m == (lo + hi) \div 2
         IN  IF pts[m + 1].x <= xVal
             THEN searchLoop(pts, xVal, m + 1, hi, m)
             ELSE searchLoop(pts, xVal, lo, m - 1, idx)

\* searchIndex with idx starting at the last index instead of 0
searchIndexFromEnd(pts, xVal) == searchLoop(pts, xVal, 0, Len(pts) - 1, Len(pts) - 1)

searchIndex(pts, xVal) == searchLoop(pts, xVal, 0, Len(pts) - 1, 0)

predictOne(t, xVal) ==
    IF IsNull(t) \/ "pts" \notin DOMAIN t \/ "leaves" \notin DOMAIN t THEN Null
    ELSE
    LET idx  == searchIndex(t.pts, xVal)
        hits == {k \in 1..Len(t.leaves) :
                    idx >= t.leaves[k].range[1] /\ idx <= t.leaves[k].range[2]}
    IN  IF hits # {}
        THEN t.leaves[CHOOSE k \in hits : \A j \in hits : k <= j].mean
        ELSE IF Len(t.leaves) # 0 THEN t.leaves[1].mean ELSE Null

\* rows of {x, y, y_pred} for the current data; the table shows their
\* toFixed(6) texts, kept here as the numbers themselves
buildPredictions(d, t) ==
    [i \in 1..Len(d) |-> [x |-> d[i].x, y |-> d[i].y, y_pred |-> predictOne(t, d[i].x)]]

(***************************************************************************)
(* The trainer and the predictor on arbitrary samples                      *)
(***************************************************************************)
RevealLabel == "Reveal Tree (depth 2) Solution"
HideLabel == "Hide Tree (depth 2) Solution"

Max(a, b) == IF a >= b THEN a ELSE b

\* setCanvasSize with a device pixel ratio of 1
canvasSize(r) == [width |-> Max(300, r.w), height |-> Max(200, r.h)]

Rects == {[w |-> 200, h |-> 150], [w |-> 640, h |-> 360], [w |-> 960, h |-> 540]}

\* the page as loaded: lines 477-482, with the markup's own button label
InitUI ==
    /\ showSolution = FALSE
    /\ btnLabel = RevealLabel
    /\ panelHidden = TRUE
    /\ tableRows = <<>>
    /\ canvas = canvasSize(rect)
    /\ lastEvent = "load"
    /\ prevShown = FALSE

Init ==
    /\ data \in Samples \cup {PerfectStep}
    /\ tree = Null
    /\ query = NoQuery
    /\ result = Null
    /\ rect = [w |-> 640, h |-> 360]
    /\ InitUI

\* tree = trainDepth2Tree(data), once for the sample
Train ==
    /\ IsNull(tree)
    /\ tree' = trainDepth2Tree(data)
    /\ UNCHANGED <<data, query, result, uiVars>>

\* one call of predictOne on the trained tree.  predictOne is pure and reads
\* only the tree, so a behaviour records a single call of it.
Predict(xVal) ==
    /\ ~IsNull(tree)
    /\ query = NoQuery
    /\ query' = <<xVal>>
    /\ result' = predictOne(tree, xVal)
    /\ UNCHANGED <<data, tree, uiVars>>

Next ==
    \/ Train
    \/ \E xVal \in QueryXs : Predict(xVal)

Spec == Init /\ [][Next]_vars

(***************************************************************************)
(* The page: generateData and the click and resize handlers                *)
(***************************************************************************)
\* generateData: GenN points evenly spaced in x, y the noisy polynomial
Generated ==
    {[i \in 1..GenN |-> Point((i - 1) * XGap, ys[i])] : ys \in [1..GenN -> YValues]}

AppInit ==
    /\ data \in Generated
    /\ tree = trainDepth2Tree(data)
    /\ query = NoQuery
    /\ result = Null
    /\ rect \in Rects
    /\ InitUI

\* Regenerate without the reset of the solution's visibility
RegenerateKeepShown ==
    \E d \in Generated :
        /\ data' = d
        /\ tree' = trainDepth2Tree(d)
        /\ canvas' = canvasSize(rect)
        /\ lastEvent' = "regenerate"
        /\ prevShown' = showSolution
        /\ UNCHANGED <<showSolution, btnLabel, panelHidden, tableRows,
                       rect, query, result>>

\* regenBtn click handler
Regenerate ==
    \E d \in Generated :
        /\ data' = d
        /\ tree' = trainDepth2Tree(d)
        /\ showSolution' = FALSE
        /\ btnLabel' = RevealLabel
        /\ panelHidden' = TRUE
        /\ tableRows' = <<>>
        /\ canvas' = canvasSize(rect)
        /\ lastEvent' = "regenerate"
        /\ prevShown' = showSolution
        /\ UNCHANGED <<rect, query, result>>

\* toggleSolutionBtn click handler
ToggleSolution ==
    /\ showSolution' = ~showSolution
    /\ btnLabel' = IF showSolution' THEN HideLabel ELSE RevealLabel
    /\ tree' = IF showSolution' /\ IsNull(tree) THEN trainDepth2Tree(data) ELSE tree
    /\ panelHidden' = ~showSolution'
    /\ tableRows' = IF showSolution' THEN buildPredictions(data, tree') ELSE tableRows
    /\ canvas' = canvasSize(rect)
    /\ lastEvent' = "toggle"
    /\ prevShown' = showSolution
    /\ UNCHANGED <<data, rect, query, result>>

\* window resize: handleResize -> render -> setCanvasSize
Resize(r) ==
    /\ rect' = r
    /\ canvas' = canvasSize(r)
    /\ lastEvent' = "resize"
    /\ prevShown' = showSolution
    /\ UNCHANGED <<data, tree, showSolution, btnLabel, panelHidden, tableRows,
                   query, result>>

AppNext ==
    \/ Regenerate
    \/ ToggleSolution
    \/ \E r \in Rects : Resize(r)

AppSpec == AppInit /\ [][AppNext]_vars

(***************************************************************************)
(* Properties                                                              *)
(***************************************************************************)
Trained == ~IsNull(tree)

Asked == query # NoQuery

\* the sorted sample of the current data
Sorted == SortByX(data)

N == Len(data)

XsOf(d) == {d[i].x : i \in 1..Len(d)}

MinX(d) == CHOOSE x \in XsOf(d) : \A z \in XsOf(d) : x <= z

MaxX(d) == CHOOSE x \in XsOf(d) : \A z \in XsOf(d) : x >= z

\* some two neighbours of the sorted sample share their x
HasRepeatedX == \E i \in 1..(N - 1) : Sorted[i].x = Sorted[i + 1].x

\* the root split of the current data
Root == bestSplit(Sorted, 0, N - 1)

\* the leaf of the tree whose index range contains the 0-based index i
LeafAt(i) ==
    tree.leaves[CHOOSE k \in 1..Len(tree.leaves) :
                    tree.leaves[k].range[1] <= i /\ i <= tree.leaves[k].range[2]]

\* C1: predictOne returns a leaf mean, never null, for every query against a
\* trained model that has at least one leaf (the single-leaf model included).
C1_PredictNeverNull ==
    (Trained /\ Asked /\ Len(tree.leaves) >= 1) => ~IsNull(result)

\* C2: the leaves' index ranges partition [0, n-1]: the first starts at 0, the
\* last ends at n-1, each has lo <= hi, each next one starts at hi + 1.
C2_LeavesPartition ==
    Trained =>
        LET L == tree.leaves
        IN  /\ Len(L) >= 1
            /\ L[1].range[1] = 0
            /\ L[Len(L)].range[2] = N - 1
            /\ \A k \in 1..Len(L) : L[k].range[1] <= L[k].range[2]
            /\ \A k \in 1..(Len(L) - 1) : L[k + 1].range[1] = L[k].range[2] + 1

\* a trained tree of three or more leaves, one of them a single point, on a
\* sample with a repeated x
C2_Witness ==
    /\ Trained
    /\ Len(tree.leaves) >= 3
    /\ HasRepeatedX
    /\ \E k \in 1..Len(tree.leaves) :
           tree.leaves[k].range[1] = tree.leaves[k].range[2]

\* C3: a trained model has 1 to 4 leaves, and with more than one leaf it has
\* exactly one threshold fewer than leaves.
C3_ThresholdCount ==
    Trained =>
        /\ Len(tree.leaves) \in 1..4
        /\ (Len(tree.leaves) > 1 => Len(tree.thresholds) = Len(tree.leaves) - 1)

\* all y of the inclusive index range [l, r] of the sorted sample are equal
AllEqualY(l, r) == \A i, j \in l..r : Sorted[i + 1].y = Sorted[j + 1].y

\* C4: the perfect step trains to exactly two leaves, [0,3] with mean 0 and
\* [4,7] with mean 10, and the one threshold 3.5 (in x steps of XGap); and a
\* child range whose y are all equal contributes one leaf and no threshold.
C4_PerfectStep ==
    /\ (Trained /\ data = PerfectStep) =>
          /\ Root.idx = 3
          /\ tree.leaves = <<[range |-> <<0, 3>>, mean |-> Frac(0, 1)],
                             [range |-> <<4, 7>>, mean |-> Frac(10, 1)]>>
          /\ tree.thresholds = <<(7 * XGap) \div 2>>
    /\ (Trained /\ Root.idx # -1) =>
          /\ AllEqualY(0, Root.idx) =>
                 /\ LeafAt(0).range = <<0, Root.idx>>
                 /\ bestSplit(Sorted, 0, Root.idx).idx = -1
          /\ AllEqualY(Root.idx + 1, N - 1) =>
                 /\ LeafAt(N - 1).range = <<Root.idx + 1, N - 1>>
                 /\ bestSplit(Sorted, Root.idx + 1, N - 1).idx = -1

\* C5: a query below the smallest training x is answered as the smallest
\* training x is, and a query above the largest as the largest is.
C5_Extrapolation ==
    (Trained /\ Asked) =>
        /\ query[1] < MinX(data) => result = predictOne(tree, MinX(data))
        /\ query[1] > MaxX(data) => result = predictOne(tree, MaxX(data))

\* a query below a repeated smallest x, answered by a tree of several leaves
C5_Witness ==
    /\ Trained
    /\ Asked
    /\ query[1] < MinX(data)
    /\ ~IsNull(result)
    /\ Len(tree.leaves) >= 2
    /\ N >= 2
    /\ Sorted[1].x = Sorted[2].x

\* C6: right after a Regenerate the solution is hidden (flag off, panel
\* hidden, table empty, label back to Reveal) and the tree is the one trained
\* on the new data.
C6_RegenerateHides ==
    lastEvent = "regenerate" =>
        /\ showSolution = FALSE
        /\ panelHidden = TRUE
        /\ tableRows = <<>>
        /\ btnLabel = RevealLabel
        /\ tree = trainDepth2Tree(data)

\* a Regenerate that came while the solution was shown
C6_Witness == lastEvent = "regenerate" /\ prevShown = TRUE

\* C7 as stated: no index of [0, n-1) costs strictly less than the root split.
C7_RootOptimalOverAll ==
    Trained =>
        LET pts  == Sorted
            root == bestSplit(pts, 0, N - 1)
            cost == splitCost(pts, 0, N - 1, root.idx)
        IN  root.idx # -1 =>
                \A i \in 0..(N - 2) : ~LessQ(splitCost(pts, 0, N - 1, i), cost)

\* C7 amended: no index of [0, n-1) whose two neighbours differ in x costs
\* strictly less than the root split.
C7_RootOptimalOverCandidates ==
    Trained =>
        LET pts  == Sorted
            root == bestSplit(pts, 0, N - 1)
            cost == splitCost(pts, 0, N - 1, root.idx)
        IN  root.idx # -1 =>
                \A i \in 0..(N - 2) :
                    pts[i + 1].x # pts[i + 2].x =>
                        ~LessQ(splitCost(pts, 0, N - 1, i), cost)

\* a root split that beats another candidate, while an index between two
\* equal x would have cost less than it
C7_Witness ==
    /\ Trained
    /\ Root.idx # -1
    /\ \E i \in 0..(N - 2) :
           /\ Sorted[i + 1].x # Sorted[i + 2].x
           /\ LessQ(splitCost(Sorted, 0, N - 1, Root.idx), splitCost(Sorted, 0, N - 1, i))
    /\ \E i \in 0..(N - 2) :
           /\ Sorted[i + 1].x = Sorted[i + 2].x
           /\ LessQ(splitCost(Sorted, 0, N - 1, i), splitCost(Sorted, 0, N - 1, Root.idx))

\* C8: no leaf boundary of a trained tree lies between two points of equal x,
\* and a range whose x are all identical yields the sentinel idx = -1.
C8_NoSplitBetweenEqualX ==
    Trained =>
        LET pts == Sorted
        IN  /\ \A k \in 1..(Len(tree.leaves) - 1) :
                   LET i == tree.leaves[k].range[2]
                   IN  pts[i + 1].x # pts[i + 2].x
            /\ \A l \in 0..(N - 1) : \A r \in l..(N - 1) :
                   pts[l + 1].x = pts[r + 1].x => bestSplit(pts, l, r).idx = -1

\* a tree of several leaves on a sample with a repeated x
C8_Witness == Trained /\ Len(tree.leaves) >= 2 /\ HasRepeatedX

\* C9: with at least one threshold, predictOne answers with the k-th leaf from
\* the left (counting from 0), k the number of thresholds t <= x.
C9_ThresholdPartition ==
    (Trained /\ Asked /\ Len(tree.thresholds) >= 1) =>
        LET k == Cardinality({j \in 1..Len(tree.thresholds) :
                                 tree.thresholds[j] <= query[1]})
        IN  /\ k + 1 <= Len(tree.leaves)
            /\ result = tree.leaves[k + 1].mean

\* C10: on a sample of two or more distinct x, a query at the x of the
\* training point of sorted index i is answered with the mean of the leaf
\* whose range contains i.
C10_TrainingPointLeaf ==
    (Trained /\ Asked /\ Cardinality(XsOf(data)) >= 2) =>
        LET pts == Sorted
        IN  \A i \in 0..(N - 1) :
                pts[i + 1].x = query[1] => result = LeafAt(i).mean

\* a query at a repeated x of a sample whose tree has several leaves
C10_Witness ==
    /\ Trained
    /\ Asked
    /\ Len(tree.leaves) >= 2
    /\ \E i \in 1..(N - 1) :
           Sorted[i].x = query[1] /\ Sorted[i + 1].x = query[1]
    /\ ~IsNull(result)

====
